---- MODULE Spec2Model ----
(***************************************************************************)
(* A model of dify-client's response handling: the Response Reconciler     *)
(* (parse_response / parse_error_response), the streaming drivers of Api   *)
(* (chat_messages_stream, workflows_run_stream, completion_messages_stream)*)
(* and the SSE decoder SseMessageEventStream, together with the requests   *)
(* the operations of Api build, validate and send.  Spec makes one call at *)
(* a time; Concurrent interleaves two streaming calls and a stop call on   *)
(* one client; Handles interleaves the calls of two Api handles of one     *)
(* client, each with its own before_send hook.                             *)
(*                                                                         *)
(* Response texts are strings.  Json gives what serde_json reads from a    *)
(* text; the Deserialize* operators are the derived Deserialize impls of   *)
(* the response types: they look at the fields a type requires and ignore  *)
(* the others.                                                             *)
(***************************************************************************)
EXTENDS Integers, Sequences, FiniteSets, TLC

\* ------------------------------------------------------------------ bounds

\* The longest event stream a streaming call or a decoder is fed.
MaxFrames == 3

\* How many times the underlying stream may answer Pending to the decoder.
MaxPending == 1

\* The longest event stream each of the concurrent calls is fed.
MaxShared == 2

\* How many calls are made on one Api handle.
MaxCalls == 2

\* ------------------------------------------------------------- JSON values

Absent == [t |-> "absent", s |-> "", n |-> 0]

Str(s) == [t |-> "str", s |-> s, n |-> 0]

Num(n) == [t |-> "num", s |-> "", n |-> n]

\* A nested object or array, whose content no code of the model reads.
Nested == [t |-> "obj", s |-> "", n |-> 0]

\* A JSON array, whose elements no code of the model reads.
Arr == [t |-> "arr", s |-> "", n |-> 0]

\* true or false.
Bool(b) == [t |-> "bool", s |-> IF b THEN "true" ELSE "false", n |-> 0]

\* null
Null == [t |-> "null", s |-> "", n |-> 0]

\* No members at all.
NoMembers == [ x \in {} |-> Absent ]

\* A JSON object with the given members, name |-> value.
Obj(members) == [ wf |-> TRUE, f |-> members ]

\* A text that is not JSON at all.
NotJson == [ wf |-> FALSE, f |-> NoMembers ]

\* The member of a document (or of a value read from one) with the given
\* name, Absent if it has none.
Member(doc, name) == IF name \in DOMAIN doc.f THEN doc.f[name] ELSE Absent

\* ------------------------------------------------------------ sample texts

TxtMsgHi    == "{\"event\":\"message\",\"answer\":\"Hi\",\"id\":\"m1\",\"task_id\":\"t1\"}"
TxtMsgYo    == "{\"event\":\"message\",\"answer\":\"Yo\",\"id\":\"m1\",\"task_id\":\"t1\"}"
TxtMsgEnd   == "{\"event\":\"message_end\",\"id\":\"m1\",\"task_id\":\"t1\",\"metadata\":{}}"
TxtWfFin    == "{\"event\":\"workflow_finished\",\"task_id\":\"t1\",\"workflow_run_id\":\"w1\",\"data\":{}}"
TxtEvError  == "{\"event\":\"error\",\"status\":400,\"code\":\"bad\",\"message\":\"boom\"}"
TxtPing     == "{\"event\":\"ping\"}"
TxtTts      == "{\"event\":\"tts_message\",\"task_id\":\"t1\"}"
TxtNoTag    == "{\"answer\":\"Hi\",\"id\":\"m1\",\"task_id\":\"t1\"}"
TxtMsgShort == "{\"event\":\"message\",\"id\":\"m1\"}"
TxtHtml     == "<html>Bad Gateway</html>"
TxtEmpty    == ""
TxtResult   == "{\"result\":\"success\"}"
TxtBoth     == "{\"result\":\"success\",\"code\":\"c\",\"message\":\"m\",\"status\":200}"
TxtNotFound == "{\"code\":\"not_found\",\"message\":\"no such id\",\"status\":404}"
TxtNegative == "{\"code\":\"c\",\"message\":\"m\",\"status\":-1}"
TxtChat     == "{\"message_id\":\"m1\",\"created_at\":1705395332,\"event\":\"message\",\"mode\":\"chat\",\"answer\":\"Hi\",\"metadata\":{}}"
TxtComplete == "{\"message_id\":\"m1\",\"created_at\":1705395332,\"task_id\":\"t1\",\"event\":\"message\",\"mode\":\"completion\",\"answer\":\"Hi\",\"metadata\":{}}"
TxtFile     == "{\"event\":\"message_file\",\"id\":\"f1\",\"type\":\"image\",\"belongs_to\":\"assistant\",\"url\":\"http://x/f1.png\"}"
TxtSuggest  == "{\"result\":\"success\",\"data\":[]}"
TxtPage     == "{\"limit\":20,\"has_more\":false,\"data\":[]}"
TxtMeta     == "{\"tool_icons\":{}}"
TxtParams   == "{\"opening_statement\":\"\",\"suggested_questions\":[],\"suggested_questions_after_answer\":{\"enabled\":false},\"speech_to_text\":{\"enabled\":false},\"retriever_resource\":{\"enabled\":false},\"annotation_reply\":{\"enabled\":false},\"user_input_form\":[],\"file_upload\":[],\"system_parameters\":{\"image_file_size_limit\":\"10\"}}"

\* What serde_json reads from each sample text.
Json(text) ==
    CASE text = TxtMsgHi ->
           Obj([ event |-> Str("message"), answer |-> Str("Hi"),
                 id |-> Str("m1"), task_id |-> Str("t1") ])
      [] text = TxtMsgYo ->
           Obj([ event |-> Str("message"), answer |-> Str("Yo"),
                 id |-> Str("m1"), task_id |-> Str("t1") ])
      [] text = TxtMsgEnd ->
           Obj([ event |-> Str("message_end"), id |-> Str("m1"),
                 task_id |-> Str("t1"), metadata |-> Nested ])
      [] text = TxtWfFin ->
           Obj([ event |-> Str("workflow_finished"), task_id |-> Str("t1"),
                 workflow_run_id |-> Str("w1"), data |-> Nested ])
      [] text = TxtEvError ->
           Obj([ event |-> Str("error"), status |-> Num(400),
                 code |-> Str("bad"), message |-> Str("boom") ])
      [] text = TxtPing -> Obj([ event |-> Str("ping") ])
      [] text = TxtTts ->
           Obj([ event |-> Str("tts_message"), task_id |-> Str("t1") ])
      [] text = TxtNoTag ->
           Obj([ answer |-> Str("Hi"), id |-> Str("m1"), task_id |-> Str("t1") ])
      [] text = TxtMsgShort ->
           Obj([ event |-> Str("message"), id |-> Str("m1") ])
      [] text = TxtResult -> Obj([ result |-> Str("success") ])
      [] text = TxtBoth ->
           Obj([ result |-> Str("success"), code |-> Str("c"),
                 message |-> Str("m"), status |-> Num(200) ])
      [] text = TxtNotFound ->
           Obj([ code |-> Str("not_found"), message |-> Str("no such id"),
                 status |-> Num(404) ])
      [] text = TxtNegative ->
           Obj([ code |-> Str("c"), message |-> Str("m"), status |-> Num(0 - 1) ])
      [] text = TxtChat ->
           Obj([ message_id |-> Str("m1"), created_at |-> Num(1705395332),
                 event |-> Str("message"), mode |-> Str("chat"),
                 answer |-> Str("Hi"), metadata |-> Nested ])
      [] text = TxtComplete ->
           Obj([ message_id |-> Str("m1"), created_at |-> Num(1705395332),
                 task_id |-> Str("t1"), event |-> Str("message"),
                 mode |-> Str("completion"), answer |-> Str("Hi"),
                 metadata |-> Nested ])
      [] text = TxtFile ->
           Obj([ event |-> Str("message_file"), id |-> Str("f1"),
                 type |-> Str("image"), belongs_to |-> Str("assistant"),
                 url |-> Str("http://x/f1.png") ])
      [] text = TxtSuggest ->
           Obj([ result |-> Str("success"), data |-> Arr ])
      [] text = TxtPage ->
           Obj([ limit |-> Num(20), has_more |-> Bool(FALSE), data |-> Arr ])
      [] text = TxtMeta -> Obj([ tool_icons |-> Nested ])
      [] text = TxtParams ->
           Obj([ opening_statement |-> Str(""), suggested_questions |-> Arr,
                 suggested_questions_after_answer |-> Nested,
                 speech_to_text |-> Nested, retriever_resource |-> Nested,
                 annotation_reply |-> Nested, user_input_form |-> Arr,
                 file_upload |-> Arr, system_parameters |-> Nested ])
      [] OTHER -> NotJson

\* ------------------------------------------------------- typed field reads

IsString(doc, name) == Member(doc, name).t = "str"

\* A u32 member: a number that is not negative (no text of the model holds a
\* number above u32::MAX, which is beyond TLC's integers).
IsU32(doc, name) ==
    /\ Member(doc, name).t = "num"
    /\ Member(doc, name).n >= 0

IsNested(doc, name) == Member(doc, name).t = "obj"

IsArr(doc, name) == Member(doc, name).t = "arr"

IsBool(doc, name) == Member(doc, name).t = "bool"

\* The members of doc named in names; the others are dropped.
Restrict(doc, names) ==
    [ x \in (DOMAIN doc.f) \cap names |-> doc.f[x] ]

\* ------------------------------------------------------------- response.rs

\* ErrorResponse::unknown(message)
ErrorResponseUnknown(message) ==
    [ code |-> "unknown_error", message |-> message, status |-> 503 ]

\* serde_json::from_str::<ErrorResponse>(text): code, message and a u32 status.
DeserializeErrorResponse(text) ==
    LET doc == Json(text) IN
    IF /\ doc.wf
       /\ IsString(doc, "code")
       /\ IsString(doc, "message")
       /\ IsU32(doc, "status")
    THEN [ ok |-> TRUE,
           value |-> [ code    |-> Member(doc, "code").s,
                       message |-> Member(doc, "message").s,
                       status  |-> Member(doc, "status").n ] ]
    ELSE [ ok |-> FALSE, value |-> ErrorResponseUnknown("") ]

\* The names AppMode is written with (rename_all = "kebab-case").
AppModeNames ==
    { "completion", "workflow", "chat", "advanced-chat", "agent-chat", "channel" }

\* The success shapes the blocking calls of the model expect.
SuccessShapes ==
    { "ResultResponse", "ChatMessagesResponse", "MessagesSuggestedResponse",
      "MessagesResponse", "ConversationsResponse", "ParametersResponse",
      "MetaResponse", "WorkflowsRunResponse", "CompletionMessagesResponse" }

\* The members of ParametersResponse.
ParametersFields ==
    { "opening_statement", "suggested_questions", "suggested_questions_after_answer",
      "speech_to_text", "retriever_resource", "annotation_reply", "user_input_form",
      "file_upload", "system_parameters" }

\* The members a success shape keeps.
ShapeFields(shape) ==
    CASE shape = "ResultResponse" -> { "result" }
      [] shape = "MessagesSuggestedResponse" -> { "result", "data" }
      [] shape \in { "MessagesResponse", "ConversationsResponse" } ->
           { "limit", "has_more", "data" }
      [] shape = "ParametersResponse" -> ParametersFields
      [] shape = "MetaResponse" -> { "tool_icons" }
      [] shape = "WorkflowsRunResponse" -> { "workflow_run_id", "task_id", "data" }
      [] shape = "CompletionMessagesResponse" ->
           { "message_id", "created_at", "task_id", "event", "mode", "answer", "metadata" }
      [] OTHER -> { "message_id", "created_at", "event", "mode", "answer", "metadata" }

\* Whether a JSON document has what the shape requires.
ShapeMatches(shape, doc) ==
    CASE shape = "ResultResponse" -> doc.wf /\ IsString(doc, "result")
      [] shape = "MessagesSuggestedResponse" ->
           doc.wf /\ IsString(doc, "result") /\ IsArr(doc, "data")
      [] shape \in { "MessagesResponse", "ConversationsResponse" } ->
           doc.wf /\ IsU32(doc, "limit") /\ IsBool(doc, "has_more") /\ IsArr(doc, "data")
      [] shape = "ParametersResponse" ->
           /\ doc.wf
           /\ IsString(doc, "opening_statement")
           /\ \A a \in { "suggested_questions", "user_input_form", "file_upload" } :
                  IsArr(doc, a)
           /\ \A o \in ParametersFields \ { "opening_statement", "suggested_questions",
                                             "user_input_form", "file_upload" } :
                  IsNested(doc, o)
      [] shape = "MetaResponse" -> doc.wf /\ IsNested(doc, "tool_icons")
      [] shape = "WorkflowsRunResponse" ->
           /\ doc.wf
           /\ IsString(doc, "workflow_run_id")
           /\ IsString(doc, "task_id")
           /\ IsNested(doc, "data")
      [] OTHER ->
         /\ doc.wf
         /\ shape = "CompletionMessagesResponse" => IsString(doc, "task_id")
         /\ IsString(doc, "message_id")
         /\ Member(doc, "created_at").t = "num" /\ Member(doc, "created_at").n >= 0
         /\ IsString(doc, "event")
         /\ IsString(doc, "mode") /\ Member(doc, "mode").s \in AppModeNames
         /\ IsString(doc, "answer")
         /\ IsNested(doc, "metadata")

NoValue == [ shape |-> "none", f |-> NoMembers ]

\* serde_json::from_str::<T>(text) for a success shape T.
Deserialize(shape, text) ==
    LET doc == Json(text) IN
    IF ShapeMatches(shape, doc)
    THEN [ ok |-> TRUE,
           value |-> [ shape |-> shape, f |-> Restrict(doc, ShapeFields(shape)) ] ]
    ELSE [ ok |-> FALSE, value |-> NoValue ]

\* ------------------------------------------------------------------ errors

NoError == [ type |-> "none", code |-> "", message |-> "", status |-> 0 ]

\* An anyhow error that downcasts to ErrorResponse.
ServiceError(e) ==
    [ type |-> "service", code |-> e.code, message |-> e.message, status |-> e.status ]

\* Any other anyhow error: of the transport, of serde_json, of the projector.
OtherError(type, message) ==
    [ type |-> type, code |-> "", message |-> message, status |-> 0 ]

Ok(v) == [ kind |-> "ok", value |-> v, list |-> <<>>, err |-> NoError ]

OkList(l) == [ kind |-> "ok", value |-> NoValue, list |-> l, err |-> NoError ]

Err(e) == [ kind |-> "err", value |-> NoValue, list |-> <<>>, err |-> e ]

NoResult == [ kind |-> "none", value |-> NoValue, list |-> <<>>, err |-> NoError ]

\* parse_error_response(text)
parse_error_response(text) ==
    LET err == DeserializeErrorResponse(text) IN
    IF err.ok
    THEN Err(ServiceError(err.value))
    ELSE Err(ServiceError(ErrorResponseUnknown(text)))

\* A reconciler that tries the Service Error shape before the success shape.
parse_response_error_first(shape, text) ==
    LET data == Deserialize(shape, text)
        err  == DeserializeErrorResponse(text)
    IN  IF err.ok
        THEN Err(ServiceError(err.value))
        ELSE IF data.ok THEN Ok(data.value) ELSE parse_error_response(text)

\* parse_response::<T>(text)
parse_response(shape, text) ==
    LET data == Deserialize(shape, text) IN
    IF data.ok THEN Ok(data.value) ELSE parse_error_response(text)

\* ------------------------------------------------------- stream events

\* The inner event names of SseMessageEvent (tag = "event", snake_case).
KnownEvents ==
    { "message", "message_file", "message_end", "message_replace",
      "workflow_started", "node_started", "node_finished", "workflow_finished",
      "agent_message", "agent_thought", "error", "ping" }

\* The variants that end a task's logical stream.
TerminalEvents == { "message_end", "workflow_finished", "error" }

\* An open taxonomy: any event name is taken.
IsKnownEventLenient(tag) == TRUE

IsKnownEvent(tag) == tag \in KnownEvents

\* Whether a JSON document has the members the variant cannot do without
\* (base is an Option and extra takes whatever is left).
VariantMatches(tag, doc) ==
    CASE tag \in { "message", "agent_message" } ->
           IsString(doc, "id") /\ IsString(doc, "task_id") /\ IsString(doc, "answer")
      [] tag = "message_file" ->
           /\ IsString(doc, "id")
           /\ IsString(doc, "type") /\ Member(doc, "type").s = "image"
           /\ IsString(doc, "belongs_to") /\ Member(doc, "belongs_to").s \in { "user", "assistant" }
           /\ IsString(doc, "url")
      [] tag = "message_end" ->
           IsString(doc, "id") /\ IsString(doc, "task_id") /\ IsNested(doc, "metadata")
      [] tag = "message_replace" ->
           IsString(doc, "task_id") /\ IsString(doc, "answer")
      [] tag \in { "workflow_started", "node_started", "node_finished", "workflow_finished" } ->
           IsString(doc, "task_id") /\ IsString(doc, "workflow_run_id") /\ IsNested(doc, "data")
      [] tag = "agent_thought" ->
           /\ IsString(doc, "id") /\ IsString(doc, "task_id")
           /\ IsU32(doc, "position")
           /\ IsString(doc, "thought") /\ IsString(doc, "observation")
           /\ IsString(doc, "tool") /\ Member(doc, "tool_labels").t # "absent"
           /\ IsString(doc, "tool_input") /\ IsNested(doc, "message_files")
      [] tag = "error" ->
           IsU32(doc, "status") /\ IsString(doc, "code") /\ IsString(doc, "message")
      [] OTHER -> TRUE

NoEvent == [ variant |-> "none", f |-> NoMembers ]

\* What the serde_json::Error of a failed from_str::<SseMessageEvent>(data)
\* displays: what was wrong and, for an unknown variant, its name; never the
\* data.
ParseError(data) ==
    LET doc == Json(data)
        tag == Member(doc, "event")
    IN  CASE ~doc.wf -> "expected value at line 1 column 1"
          [] tag.t # "str" -> "missing field event"
          [] ~IsKnownEvent(tag.s) -> "unknown variant " \o tag.s
          [] OTHER -> "missing field of " \o tag.s

\* serde_json::from_str::<SseMessageEvent>(data): the variant named by the
\* member "event", with the document's other members; Ping carries nothing.
DeserializeSseMessageEvent(data) ==
    LET doc == Json(data)
        tag == Member(doc, "event").s
    IN  IF /\ doc.wf
           /\ IsString(doc, "event")
           /\ IsKnownEvent(tag)
           /\ VariantMatches(tag, doc)
        THEN [ ok |-> TRUE,
               value |-> [ variant |-> tag,
                           f |-> IF tag = "ping"
                                 THEN NoMembers
                                 ELSE Restrict(doc, (DOMAIN doc.f) \ { "event" }) ] ]
        ELSE [ ok |-> FALSE, value |-> NoEvent ]

\* ------------------------------------------------------- the event stream

\* An item of resp.bytes_stream().eventsource(): Ok(Event { event, data }) ...
Frame(name, data) == [ kind |-> "frame", event |-> name, data |-> data ]

\* ... or Err(EventStreamError).
TransportFailure == [ kind |-> "error", event |-> "", data |-> "connection reset" ]

\* The data of the frames named "message" the model feeds.
MessageData ==
    { TxtMsgHi, TxtMsgYo, TxtMsgEnd, TxtWfFin, TxtEvError, TxtPing,
      TxtTts, TxtNoTag, TxtMsgShort, TxtHtml, TxtFile }

\* The data of the frames with another name.
OtherData == { TxtMsgHi, TxtHtml }

Items ==
    { Frame("message", d) : d \in MessageData }
        \cup { Frame("ping", d) : d \in OtherData }
        \cup { TransportFailure }

\* A filter that lets every frame through.
QualifiesAny(item) == item.kind = "frame"

\* event.event == "message"
Qualifies(item) == item.event = "message"

\* ------------------------------------------------------------ projectors

\* The callbacks the model passes to a streaming call:
\*   answers   Some(answer) for Message, None for the rest (tests/client.rs);
\*   variants  Some(the variant's name) for every event;
\*   guarded   as answers, but an Error event makes it fail.
Projectors == { "answers", "variants", "guarded" }

Some(v) == [ kind |-> "some", v |-> v ]

None == [ kind |-> "none", v |-> "" ]

Failed(e) == [ kind |-> "err", v |-> e ]

Project(p, ev) ==
    CASE p = "variants" -> Some(ev.variant)
      [] p = "guarded" /\ ev.variant = "error" -> Failed(Member(ev, "message").s)
      [] OTHER -> IF ev.variant = "message" THEN Some(Member(ev, "answer").s) ELSE None

\* --------------------------------------------------------------- client.rs

\* Config::default()
ConfigDefault ==
    [ base_url |-> "https://api.dify.ai", api_key |-> "API_KEY", timeout |-> 30 ]

\* The members of a request struct that are not None: what .query(&data)
\* writes into the URL.
QueryOf(data) == [ x \in { y \in DOMAIN data : data[y] # Null } |-> data[x] ]

\* Client::create_request(url, method, data): the headers carry the client's
\* api key, POST and DELETE send the data as a JSON body, GET as a query.
create_request(c, url, method, data) ==
    [ method        |-> method,
      url           |-> url,
      authorization |-> "Bearer " \o c.api_key,
      body          |-> IF method \in { "POST", "DELETE" } THEN data ELSE NoMembers,
      query         |-> IF method = "GET" THEN QueryOf(data) ELSE NoMembers ]

\* The configurations the model constructs clients with; a zero timeout
\* means none.
Configs ==
    [ base_url : { "https://api.dify.ai", "http://localhost:5001/" },
      api_key  : { "API_KEY", "app-2" },
      timeout  : { 0, 30, 60 } ]

\* Client { config: Arc::new(c), http_client }: the timeout the http client
\* is built with is the configuration's, unless that is zero.
new_with_config(c) ==
    [ config |-> c, http_timeout |-> IF c.timeout = 0 THEN "none" ELSE "set" ]

\* A constructor that keeps the default api key.
NewDropsApiKey(base_url, api_key) ==
    new_with_config([ ConfigDefault EXCEPT !.base_url = base_url ])

\* Client::new: Config { base_url, api_key, ..Config::default() }
new(base_url, api_key) ==
    new_with_config([ ConfigDefault EXCEPT !.base_url = base_url, !.api_key = api_key ])

\* A replace that leaves the placeholder in.
ReplaceNothing(s, from, to) == s

\* str::replace(from, to)
RECURSIVE Replace(_, _, _)
Replace(s, from, to) ==
    IF Len(s) < Len(from)
    THEN s
    ELSE IF SubSeq(s, 1, Len(from)) = from
    THEN to \o Replace(SubSeq(s, Len(from) + 1, Len(s)), from, to)
    ELSE SubSeq(s, 1, 1) \o Replace(SubSeq(s, 2, Len(s)), from, to)

\* -------------------------------------------------------------- request.rs

ResponseModes == { "blocking", "streaming" }

\* The identifiers a caller passes: empty, or not.
TaskIds == { "", "t1" }

MessageIds == { "", "m1" }

ConversationIds == { "", "c1" }

Users == { "", "u1" }

Texts == { "", "hello" }

\* Option<String>
Names == { Null, Str("n1") }

\* ChatMessagesRequest, WorkflowsRunRequest, CompletionMessagesRequest: the
\* members the model follows.
RunRequest(mode) ==
    [ response_mode |-> Str(mode), user |-> Str("u1") ]

StreamTaskStopRequest(task_id, user) ==
    [ task_id |-> Str(task_id), user |-> Str(user) ]

MessagesSuggestedRequest(message_id) ==
    [ message_id |-> Str(message_id) ]

MessagesFeedbacksRequest(message_id, user) ==
    [ message_id |-> Str(message_id), rating |-> Str("like"), user |-> Str(user) ]

MessagesRequest(conversation_id, user) ==
    [ conversation_id |-> Str(conversation_id), user |-> Str(user),
      first_id |-> Null, limit |-> Null ]

ConversationsRequest(user) ==
    [ user |-> Str(user), last_id |-> Null, limit |-> Null, pinned |-> Bool(FALSE) ]

ConversationsRenameRequest(conversation_id, name, auto_generate, user) ==
    [ conversation_id |-> Str(conversation_id), name |-> name,
      auto_generate |-> Bool(auto_generate), user |-> Str(user) ]

ConversationsDeleteRequest(conversation_id, user) ==
    [ conversation_id |-> Str(conversation_id), user |-> Str(user) ]

TextToAudioRequest(text, user) ==
    [ text |-> Str(text), user |-> Str(user), streaming |-> Bool(FALSE) ]

\* ParametersRequest, MetaRequest
UserRequest(user) == [ user |-> Str(user) ]

NoRequest == NoMembers

\* ------------------------------------------------------------------ state

VARIABLES
    pc,          \* "idle", "streaming" (a driver's loop), "polling" (a decoder), "done"
    op,          \* the operation invoked, "none" before any
    built,       \* the requests as create_request built them, in order
    sent,        \* the requests handed to the transport, in order
    resp,        \* the response the transport gave
    wire,        \* the items the event stream has yielded so far
    ended,       \* whether the event stream has answered None
    projector,   \* the callback of the streaming call
    calls,       \* the events the callback was invoked with, in order
    ret,         \* the driver's ret: Vec<T>
    result,      \* what the call returned
    terminated,  \* SseMessageEventStream.terminated
    out,         \* the items SseMessageEventStream has yielded, in order
    last,        \* the last poll_next: what it returned, and the polls of its stream it made
    upolls,      \* how many times SseMessageEventStream polled its stream
    client,      \* Client.config
    given,       \* the request data the caller passed to the call
    hook,        \* whether the Api has a before_send_hook
    hooked,      \* how many times the before_send_hook was invoked
    running,     \* the streaming calls that share the client, by call
    stopcall,    \* the stop call made beside them
    apis         \* the Api handles made from the client, by handle

vars ==
    << pc, op, built, sent, resp, wire, ended, projector, calls, ret, result,
       terminated, out, last, upolls, client, given, hook, hooked,
       running, stopcall, apis >>

\* What belongs to the calls made one at a time ...
single ==
    << pc, op, built, sent, resp, wire, ended, projector, calls, ret, result,
       terminated, out, last, upolls, given, hook, hooked >>

\* ... and to the calls made concurrently on one client.
shared == << running, stopcall, apis >>

\* ------------------------------------------------------------- responses

NoResponse == [ kind |-> "none", status |-> 0, text |-> "" ]

\* A response whose body is a Server-Sent-Events stream.
SseResponse == [ kind |-> "sse", status |-> 200, text |-> "" ]

\* A response whose body is one text.
TextResponse(status, text) == [ kind |-> "text", status |-> status, text |-> text ]

BodyTexts ==
    { TxtResult, TxtBoth, TxtNotFound, TxtNegative, TxtChat, TxtEvError,
      TxtHtml, TxtEmpty, TxtSuggest, TxtPage, TxtMeta, TxtParams, TxtWfFin,
      TxtComplete }

Statuses == { 200, 204, 404 }

TextResponses == { TextResponse(st, t) : st \in Statuses, t \in BodyTexts }

\* What resp.bytes_stream().eventsource() can yield next: any item while an
\* event stream lasts; nothing for a plain JSON or HTML body, which has no
\* "data:" line and so dispatches no event.
EventsourceItems(r) == IF r.kind = "sse" THEN Items ELSE {}

\* ----------------------------------------------------------------- api.rs

StreamOps == { "chat_messages_stream", "workflows_run_stream", "completion_messages_stream" }

\* ApiPath::as_str for the operations of the model.
ApiPath(o) ==
    CASE o \in { "chat_messages", "chat_messages_stream", "Client::chat_messages" } ->
           "/v1/chat-messages"
      [] o \in { "workflows_run", "workflows_run_stream" } -> "/v1/workflows/run"
      [] o \in { "completion_messages", "completion_messages_stream" } ->
           "/v1/completion-messages"
      [] o = "messages_feedbacks" -> "/v1/messages/{message_id}/feedbacks"
      [] o = "chat_messages_stop" -> "/v1/chat-messages/{task_id}/stop"
      [] o = "workflows_stop" -> "/v1/workflows/{task_id}/stop"
      [] o = "completion_messages_stop" -> "/v1/completion-messages/{task_id}/stop"
      [] o = "messages_suggested" -> "/v1/messages/{message_id}/suggested"
      [] o = "messages" -> "/v1/messages"
      [] o = "conversations" -> "/v1/conversations"
      [] o = "conversations_delete" -> "/v1/conversations/{conversation_id}"
      [] o = "conversations_renaming" -> "/v1/conversations/{conversation_id}/name"
      [] o = "text_to_audio" -> "/v1/text-to-audio"
      [] o = "parameters" -> "/v1/parameters"
      [] o = "meta" -> "/v1/meta"
      [] OTHER -> ""

\* Api::build_request_api
build_request_api(c, o) == c.base_url \o ApiPath(o)

\* create_chat_messages_request, create_workflows_run_request,
\* create_completion_messages_request
Request(c, o, data) == create_request(c, build_request_api(c, o), "POST", data)

\* A method that sends the mode the caller wrote into the request.
SetResponseModeKept(data, mode) == data

\* req_data.response_mode = ResponseMode::Blocking (or ::Streaming)
SetResponseMode(data, mode) == [ data EXCEPT !["response_mode"] = Str(mode) ]

\* The before_send_hook of the model: it overrides the Authorization header.
Hook(req) == [ req EXCEPT !.authorization = "Bearer OTHER_KEY" ]

\* A send that goes past the hook.
SendSkipsHook(h, req) == req

\* Api::send, up to client.execute(req): the request the transport is given.
send(h, req) == IF h THEN Hook(req) ELSE req

\* How many times one send invokes the hook.
Invoked(h) == IF h THEN 1 ELSE 0

\* One pass of a driver's loop leaves the loop running ...
Continue(r, called) ==
    [ next |-> "continue", ret |-> r, called |-> called, result |-> NoResult ]

\* ... or returns from the call.
Return(r, called, res) ==
    [ next |-> "return", ret |-> r, called |-> called, result |-> res ]

\* A push at the front of ret.
VecPushFront(r, v) == << v >> \o r

\* ret.push(answer)
VecPush(r, v) == Append(r, v)

\* A driver that passes over an error of the event stream.
OnTransportErrorSkip(r, item) == Continue(r, <<>>)

\* let event = event?;
OnTransportError(r, item) ==
    Return(r, <<>>, Err(OtherError("transport", item.data)))

\* A driver that passes over a frame it cannot deserialize.
OnDecodeFailureSkip(r, data) == Continue(r, <<>>)

\* Err(e) => bail!("data: {}, error: {}", event.data, e)
OnDecodeFailure(r, data) ==
    Return(r, <<>>,
           Err(OtherError("decode", "data: " \o data \o ", error: " \o ParseError(data))))

\* A driver that takes a failure of the callback for None.
OnEventIgnoreFailure(p, r, ev) ==
    LET a == Project(p, ev) IN
    IF a.kind = "some" THEN Continue(VecPush(r, a.v), <<ev>>) ELSE Continue(r, <<ev>>)

\* A driver that returns what it has once a terminal event has been handled.
OnEventStopAtTerminal(p, r, ev) ==
    LET a  == Project(p, ev)
        r2 == IF a.kind = "some" THEN VecPush(r, a.v) ELSE r
    IN  CASE a.kind = "err" -> Return(r, <<ev>>, Err(OtherError("projector", a.v)))
          [] ev.variant \in TerminalEvents -> Return(r2, <<ev>>, OkList(r2))
          [] OTHER -> Continue(r2, <<ev>>)

\* A driver that takes an Error event for the failure of the call.
OnEventErrorFails(p, r, ev) ==
    LET a == Project(p, ev) IN
    CASE ev.variant = "error" ->
           Return(r, <<ev>>, Err(ServiceError([ code    |-> Member(ev, "code").s,
                                                message |-> Member(ev, "message").s,
                                                status  |-> Member(ev, "status").n ])))
      [] a.kind = "err"  -> Return(r, <<ev>>, Err(OtherError("projector", a.v)))
      [] a.kind = "some" -> Continue(VecPush(r, a.v), <<ev>>)
      [] OTHER           -> Continue(r, <<ev>>)

\* if let Some(answer) = callback(msg_event)? { ret.push(answer); }
OnEvent(p, r, ev) ==
    LET a == Project(p, ev) IN
    CASE a.kind = "err"  -> Return(r, <<ev>>, Err(OtherError("projector", a.v)))
      [] a.kind = "some" -> Continue(VecPush(r, a.v), <<ev>>)
      [] OTHER           -> Continue(r, <<ev>>)

\* A loop body that passes over a ping without handing it to the callback.
DriverItemDropsPing(p, r, item) ==
    IF item.kind = "error"
    THEN OnTransportError(r, item)
    ELSE IF ~Qualifies(item)
    THEN Continue(r, <<>>)
    ELSE LET d == DeserializeSseMessageEvent(item.data) IN
         IF ~d.ok
         THEN OnDecodeFailure(r, item.data)
         ELSE IF d.value.variant = "ping" THEN Continue(r, <<>>) ELSE OnEvent(p, r, d.value)

\* The body of `while let Some(event) = stream.next().await`.
DriverItem(p, r, item) ==
    IF item.kind = "error"
    THEN OnTransportError(r, item)
    ELSE IF ~Qualifies(item)
    THEN Continue(r, <<>>)
    ELSE LET d == DeserializeSseMessageEvent(item.data) IN
         IF d.ok THEN OnEvent(p, r, d.value) ELSE OnDecodeFailure(r, item.data)

\* Ok(ret), once stream.next() answers None.
DriverEnd(r) == OkList(r)

\* What a poll_next returned (Ready(Some) "item", Ready(None) "end", "pending")
\* and how many times it polled the stream under it.
Polled(returned, n) == [ returned |-> returned, polled |-> n ]

\* The send failed: no response.
TransportFailed == [ kind |-> "failed", status |-> 0, text |-> "" ]

SendError == Err(OtherError("transport", "error sending request"))

\* What the transport answers a blocking call with.
BlockingAnswers == { TransportFailed } \cup TextResponses

\* What the transport answers a streaming call with.
StreamAnswers == { TransportFailed, SseResponse } \cup TextResponses

\* The success shape of workflows_run and of completion_messages.
RunShape(o) ==
    IF o = "workflows_run" THEN "WorkflowsRunResponse" ELSE "CompletionMessagesResponse"

\* The cascade Client::chat_messages writes out itself.
ClientChatMessagesParse(text) ==
    LET data == Deserialize("ChatMessagesResponse", text)
        err  == DeserializeErrorResponse(text)
    IN  IF data.ok
        THEN Ok(data.value)
        ELSE IF err.ok
        THEN Err(ServiceError(err.value))
        ELSE Err(ServiceError(ErrorResponseUnknown(text)))

\* The initial state of a call made alone.
InitSingle ==
    /\ pc = "idle"
    /\ op = "none"
    /\ built = <<>>
    /\ sent = <<>>
    /\ resp = NoResponse
    /\ wire = <<>>
    /\ ended = FALSE
    /\ projector = "none"
    /\ calls = <<>>
    /\ ret = <<>>
    /\ result = NoResult
    /\ terminated = FALSE
    /\ out = <<>>
    /\ last = Polled("none", 0)
    /\ upolls = 0
    /\ given = NoRequest
    /\ hook = FALSE
    /\ hooked = 0

\* A validation that is made after the request has gone out.
BailAfterSend(o, data, h, message) ==
    /\ op' = o
    /\ given' = data
    /\ hook' = h
    /\ hooked' = hooked + Invoked(h)
    /\ built' = Append(built, create_request(client, build_request_api(client, o),
                                              "POST", data))
    /\ sent' = Append(sent, send(h, create_request(client, build_request_api(client, o),
                                                   "POST", data)))
    /\ result' = Err(OtherError("validation", message))
    /\ pc' = "done"
    /\ UNCHANGED resp

\* bail!(..) before a request is built: the call returns a validation error,
\* nothing is sent and the hook is not invoked.
Bail(o, data, h, message) ==
    /\ op' = o
    /\ given' = data
    /\ hook' = h
    /\ result' = Err(OtherError("validation", message))
    /\ pc' = "done"
    /\ UNCHANGED << built, sent, resp, hooked >>

\* A send that is made again when the transport fails.
SendsRetried(o, data, h, req, r) ==
    /\ op' = o
    /\ given' = data
    /\ hook' = h
    /\ hooked' = hooked + (IF r.kind = "failed" THEN 2 ELSE 1) * Invoked(h)
    /\ built' = Append(built, req)
    /\ sent' = IF r.kind = "failed"
               THEN sent \o << send(h, req), send(h, req) >>
               ELSE Append(sent, send(h, req))
    /\ resp' = r

\* let resp = self.send(req).await?
Sends(o, data, h, req, r) ==
    /\ op' = o
    /\ given' = data
    /\ hook' = h
    /\ hooked' = hooked + Invoked(h)
    /\ built' = Append(built, req)
    /\ sent' = Append(sent, send(h, req))
    /\ resp' = r

\* A call that looks at the status before it reads the body as a success.
SendAndParseByStatus(o, data, h, req, r, shape) ==
    /\ Sends(o, data, h, req, r)
    /\ result' = CASE r.kind = "failed" -> SendError
                   [] r.status >= 400   -> parse_error_response(r.text)
                   [] OTHER             -> parse_response(shape, r.text)
    /\ pc' = "done"

\* let resp = self.send(req).await?; let text = resp.text().await?;
\* parse_response::<T>(&text)
SendAndParse(o, data, h, req, r, shape) ==
    /\ Sends(o, data, h, req, r)
    /\ result' = IF r.kind = "failed" THEN SendError ELSE parse_response(shape, r.text)
    /\ pc' = "done"

\* What a blocking call leaves alone.
BlockingUnchanged ==
    UNCHANGED << wire, ended, projector, calls, ret, terminated, out, last, upolls,
                 client, shared >>

\* Api::chat_messages
ChatMessages ==
    /\ pc = "idle"
    /\ \E mode \in ResponseModes, h \in BOOLEAN, r \in BlockingAnswers :
         SendAndParse("chat_messages", RunRequest(mode), h,
                      Request(client, "chat_messages",
                              SetResponseMode(RunRequest(mode), "blocking")),
                      r, "ChatMessagesResponse")
    /\ BlockingUnchanged

\* Api::workflows_run, Api::completion_messages
BlockingRun ==
    /\ pc = "idle"
    /\ \E o \in { "workflows_run", "completion_messages" },
          mode \in ResponseModes, h \in BOOLEAN, r \in BlockingAnswers :
         SendAndParse(o, RunRequest(mode), h,
                      Request(client, o, SetResponseMode(RunRequest(mode), "blocking")),
                      r, RunShape(o))
    /\ BlockingUnchanged

\* Client::chat_messages: no hook, and the cascade written out.
ClientChatMessages ==
    /\ pc = "idle"
    /\ \E mode \in ResponseModes, r \in BlockingAnswers :
         /\ Sends("Client::chat_messages", RunRequest(mode), FALSE,
                  Request(client, "Client::chat_messages",
                          SetResponseMode(RunRequest(mode), "blocking")),
                  r)
         /\ result' = IF r.kind = "failed"
                      THEN SendError
                      ELSE ClientChatMessagesParse(r.text)
    /\ pc' = "done"
    /\ BlockingUnchanged

\* Api::messages_feedbacks
MessagesFeedbacks ==
    /\ pc = "idle"
    /\ \E message_id \in MessageIds, user \in Users, h \in BOOLEAN, r \in BlockingAnswers :
         LET data == MessagesFeedbacksRequest(message_id, user) IN
         IF message_id = ""
         THEN Bail("messages_feedbacks", data, h, "MessagesFeedbacksRequest.MessageID Illegal")
         ELSE SendAndParse("messages_feedbacks", data, h,
                  create_request(client,
                      Replace(build_request_api(client, "messages_feedbacks"),
                              "{message_id}", message_id),
                      "POST", [ data EXCEPT !["message_id"] = Str("") ]),
                  r, "ResultResponse")
    /\ BlockingUnchanged

\* How the streaming calls of the model are made: with either mode written
\* into the request on an Api without a hook, and with the mode streaming on
\* an Api with one.
StreamInputs ==
    { << mode, h >> \in ResponseModes \X BOOLEAN : h => mode = "streaming" }

\* Api::chat_messages_stream, workflows_run_stream, completion_messages_stream,
\* up to the loop: the request is sent with response_mode Streaming.
StreamStart ==
    /\ pc = "idle"
    /\ \E o \in StreamOps, inp \in StreamInputs, p \in Projectors, r \in StreamAnswers :
         /\ projector' = p
         /\ Sends(o, RunRequest(inp[1]), inp[2],
                  Request(client, o, SetResponseMode(RunRequest(inp[1]), "streaming")), r)
         /\ IF r.kind = "failed"
            THEN pc' = "done" /\ result' = SendError
            ELSE pc' = "streaming" /\ result' = NoResult
    /\ UNCHANGED << wire, ended, calls, ret, terminated, out, last, upolls, client, shared >>

\* One pass of the loop: stream.next() answers Some(item).
StreamNext ==
    /\ pc = "streaming"
    /\ Len(wire) < MaxFrames
    /\ \E item \in EventsourceItems(resp) :
         LET s == DriverItem(projector, ret, item) IN
         /\ wire' = Append(wire, item)
         /\ ret' = s.ret
         /\ calls' = calls \o s.called
         /\ result' = s.result
         /\ pc' = IF s.next = "continue" THEN "streaming" ELSE "done"
    /\ UNCHANGED << op, built, sent, resp, ended, projector, terminated, out, last, upolls,
                    client, given, hook, hooked, shared >>

\* The loop ends: stream.next() answers None.
StreamEnd ==
    /\ pc = "streaming"
    /\ ended' = TRUE
    /\ result' = DriverEnd(ret)
    /\ pc' = "done"
    /\ UNCHANGED << op, built, sent, resp, wire, projector, calls, ret, terminated, out,
                    last, upolls, client, given, hook, hooked, shared >>

\* ------------------------------------------- api.rs: the validated calls

StopOps == { "chat_messages_stop", "workflows_stop", "completion_messages_stop" }

\* Api::stream_task_stop, for chat_messages_stop, workflows_stop and
\* completion_messages_stop.
StreamTaskStop ==
    /\ pc = "idle"
    /\ \E o \in StopOps, task_id \in TaskIds, user \in Users, h \in BOOLEAN,
          r \in BlockingAnswers :
         LET data == StreamTaskStopRequest(task_id, user) IN
         IF task_id = ""
         THEN Bail(o, data, h, "StreamTaskStopRequest.TaskId Illegal")
         ELSE SendAndParse(o, data, h,
                  create_request(client,
                      Replace(build_request_api(client, o), "{task_id}", task_id),
                      "POST", [ data EXCEPT !["task_id"] = Str("") ]),
                  r, "ResultResponse")
    /\ BlockingUnchanged

\* Api::messages_suggested
MessagesSuggested ==
    /\ pc = "idle"
    /\ \E message_id \in MessageIds, h \in BOOLEAN, r \in BlockingAnswers :
         LET data == MessagesSuggestedRequest(message_id) IN
         IF message_id = ""
         THEN Bail("messages_suggested", data, h, "MessagesSuggestedRequest.MessageID Illegal")
         ELSE SendAndParse("messages_suggested", data, h,
                  create_request(client,
                      Replace(build_request_api(client, "messages_suggested"),
                              "{message_id}", message_id),
                      "GET", [ data EXCEPT !["message_id"] = Str("") ]),
                  r, "MessagesSuggestedResponse")
    /\ BlockingUnchanged

\* Api::conversations
Conversations ==
    /\ pc = "idle"
    /\ \E user \in Users, h \in BOOLEAN, r \in BlockingAnswers :
         LET data == ConversationsRequest(user) IN
         IF user = ""
         THEN Bail("conversations", data, h, "ConversationsRequest.User Illegal")
         ELSE SendAndParse("conversations", data, h,
                  create_request(client, build_request_api(client, "conversations"),
                                 "GET", data),
                  r, "ConversationsResponse")
    /\ BlockingUnchanged

\* Api::messages
Messages ==
    /\ pc = "idle"
    /\ \E conversation_id \in ConversationIds, user \in Users, h \in BOOLEAN,
          r \in BlockingAnswers :
         LET data == MessagesRequest(conversation_id, user) IN
         IF conversation_id = ""
         THEN Bail("messages", data, h, "MessagesRequest.ConversationID Illegal")
         ELSE SendAndParse("messages", data, h,
                  create_request(client, build_request_api(client, "messages"),
                                 "GET", data),
                  r, "MessagesResponse")
    /\ BlockingUnchanged

\* if req_data.auto_generate && req_data.name.is_none()
RenameIllegal(name, auto_generate) == auto_generate /\ name = Null

\* Api::conversations_renaming
ConversationsRenaming ==
    /\ pc = "idle"
    /\ \E conversation_id \in ConversationIds, name \in Names, auto_generate \in BOOLEAN,
          user \in Users, h \in BOOLEAN, r \in BlockingAnswers :
         LET data == ConversationsRenameRequest(conversation_id, name, auto_generate, user) IN
         CASE conversation_id = "" ->
                Bail("conversations_renaming", data, h,
                     "ConversationsRenameRequest.ConversationID Illegal")
           [] conversation_id # "" /\ RenameIllegal(name, auto_generate) ->
                Bail("conversations_renaming", data, h,
                     "ConversationsRenameRequest.Name Illegal")
           [] OTHER ->
                SendAndParse("conversations_renaming", data, h,
                    create_request(client,
                        Replace(build_request_api(client, "conversations_renaming"),
                                "{conversation_id}", conversation_id),
                        "POST", [ data EXCEPT !["conversation_id"] = Str("") ]),
                    r, "ResultResponse")
    /\ BlockingUnchanged

\* Ok(())
Unit == [ shape |-> "()", f |-> NoMembers ]

\* A delete that takes any status below 300 for success.
DeleteOutcomeAnySuccess(r) ==
    IF r.status < 300 THEN Ok(Unit) ELSE parse_error_response(r.text)

\* if resp.status().as_u16() == 204 { Ok(()) } else { parse_error_response(&text) }
DeleteOutcome(r) == IF r.status = 204 THEN Ok(Unit) ELSE parse_error_response(r.text)

\* Api::conversations_delete
ConversationsDelete ==
    /\ pc = "idle"
    /\ \E conversation_id \in ConversationIds, user \in Users, h \in BOOLEAN,
          r \in BlockingAnswers :
         LET data == ConversationsDeleteRequest(conversation_id, user) IN
         IF conversation_id = ""
         THEN Bail("conversations_delete", data, h,
                   "ConversationsDeleteRequest.ConversationID Illegal")
         ELSE /\ Sends("conversations_delete", data, h,
                       create_request(client,
                           Replace(build_request_api(client, "conversations_delete"),
                                   "{conversation_id}", conversation_id),
                           "DELETE", [ data EXCEPT !["conversation_id"] = Str("") ]),
                       r)
              /\ result' = IF r.kind = "failed" THEN SendError ELSE DeleteOutcome(r)
              /\ pc' = "done"
    /\ BlockingUnchanged

\* A response whose Content-Type starts with "audio/".
AudioResponse == [ kind |-> "audio", status |-> 200, text |-> "" ]

\* A response without a Content-Type header.
UntypedResponse == [ kind |-> "untyped", status |-> 200, text |-> TxtEmpty ]

\* What the transport answers text_to_audio with.
AudioAnswers == BlockingAnswers \cup { AudioResponse, UntypedResponse }

\* Ok(bytes)
Bytes == [ shape |-> "Bytes", f |-> NoMembers ]

\* text_to_audio, after the send: the header is looked at first.
AudioOutcome(r) ==
    CASE r.kind = "failed"  -> SendError
      [] r.kind = "untyped" -> Err(OtherError("header", "Content-Type is missing"))
      [] r.kind = "audio"   -> Ok(Bytes)
      [] OTHER              -> parse_error_response(r.text)

\* Api::text_to_audio
TextToAudio ==
    /\ pc = "idle"
    /\ \E text \in Texts, user \in Users, h \in BOOLEAN, r \in AudioAnswers :
         LET data == TextToAudioRequest(text, user) IN
         IF text = ""
         THEN Bail("text_to_audio", data, h, "TextToAudioRequest.Text Illegal")
         ELSE /\ Sends("text_to_audio", data, h,
                       create_request(client, build_request_api(client, "text_to_audio"),
                                      "POST", data),
                       r)
              /\ result' = AudioOutcome(r)
              /\ pc' = "done"
    /\ BlockingUnchanged

\* str::trim_end_matches(ch)
RECURSIVE trim_end_matches(_, _)
trim_end_matches(s, ch) ==
    IF Len(s) > 0 /\ SubSeq(s, Len(s), Len(s)) = ch
    THEN trim_end_matches(SubSeq(s, 1, Len(s) - 1), ch)
    ELSE s

\* Client::build_request_api
ClientBuildRequestApi(c, o) == trim_end_matches(c.base_url, "/") \o ApiPath(o)

\* Client::text_to_audio, after the send: as Api::text_to_audio, but an empty
\* body of another content type is not handed to the Service Error cascade.
ClientAudioOutcome(r) ==
    CASE r.kind = "failed"  -> SendError
      [] r.kind = "untyped" -> Err(OtherError("header", "Content-Type is missing"))
      [] r.kind = "audio"   -> Ok(Bytes)
      [] r.text = ""        -> Err(OtherError("header", "Content-Type is not audio/wav"))
      [] OTHER              -> parse_error_response(r.text)

\* Client::text_to_audio: the request goes to the http client as built.
ClientTextToAudio ==
    /\ pc = "idle"
    /\ \E text \in Texts, user \in Users, r \in AudioAnswers :
         LET data == TextToAudioRequest(text, user) IN
         IF text = ""
         THEN Bail("Client::text_to_audio", data, FALSE, "TextToAudioRequest.Text Illegal")
         ELSE /\ Sends("Client::text_to_audio", data, FALSE,
                       create_request(client, ClientBuildRequestApi(client, "text_to_audio"),
                                      "POST", data),
                       r)
              /\ result' = ClientAudioOutcome(r)
              /\ pc' = "done"
    /\ BlockingUnchanged

\* Api::parameters
Parameters ==
    /\ pc = "idle"
    /\ \E user \in Users, h \in BOOLEAN, r \in BlockingAnswers :
         IF user = ""
         THEN Bail("parameters", UserRequest(user), h, "ParametersRequest.User Illegal")
         ELSE SendAndParse("parameters", UserRequest(user), h,
                  create_request(client, build_request_api(client, "parameters"),
                                 "GET", UserRequest(user)),
                  r, "ParametersResponse")
    /\ BlockingUnchanged

\* Api::meta
Meta ==
    /\ pc = "idle"
    /\ \E user \in Users, h \in BOOLEAN, r \in BlockingAnswers :
         IF user = ""
         THEN Bail("meta", UserRequest(user), h, "MetaRequest.User Illegal")
         ELSE SendAndParse("meta", UserRequest(user), h,
                  create_request(client, build_request_api(client, "meta"),
                                 "GET", UserRequest(user)),
                  r, "MetaResponse")
    /\ BlockingUnchanged

\* ------------------------------------------- client.rs: construction

\* The Client a constructor returned, as a value.
ClientValue(c) ==
    [ shape |-> "Client",
      f |-> [ base_url |-> Str(c.config.base_url), api_key |-> Str(c.config.api_key),
              timeout |-> Num(c.config.timeout) ] ]

\* Client::new(base_url, api_key)
ClientNew ==
    /\ pc = "idle"
    /\ \E c \in Configs :
         /\ given' = [ base_url |-> Str(c.base_url), api_key |-> Str(c.api_key) ]
         /\ result' = Ok(ClientValue(new(c.base_url, c.api_key)))
    /\ op' = "Client::new"
    /\ pc' = "done"
    /\ UNCHANGED << built, sent, resp, hook, hooked >>
    /\ BlockingUnchanged

\* Client::new_with_config(c)
ClientNewWithConfig ==
    /\ pc = "idle"
    /\ \E c \in Configs :
         /\ given' = [ base_url |-> Str(c.base_url), api_key |-> Str(c.api_key),
                       timeout |-> Num(c.timeout) ]
         /\ result' = Ok(ClientValue(new_with_config(c)))
    /\ op' = "Client::new_with_config"
    /\ pc' = "done"
    /\ UNCHANGED << built, sent, resp, hook, hooked >>
    /\ BlockingUnchanged

\* ------------------------------------------- response.rs: the decoder

\* The polls of its stream one decoder may make in the model.
MaxPolls == MaxFrames + MaxPending + 2

\* An item of SseMessageEventStream: Ok(SseMessageEvent) or Err(anyhow).
Yielded(d, e) == [ ok |-> d.ok, event |-> d.value, err |-> e ]

\* The items that end the loop of poll_next: an error of the stream, or a
\* frame named "message"; the arm `_ => {}` passes over the others.
Returns(item) == item.kind = "error" \/ Qualifies(item)

Skipped == { i \in Items : ~Returns(i) }

\* The items the model lets end the loop of poll_next: a frame of each kind
\* the decoder tells apart (an event, a terminal event, an event without a
\* task id, a ping, an unknown event, data that is not JSON) and an error of
\* the stream.
PollItems ==
    { Frame("message", d) :
        d \in { TxtMsgHi, TxtMsgEnd, TxtFile, TxtPing, TxtTts, TxtHtml } }
        \cup { TransportFailure }

\* What poll_next yields for the item that ended its loop.
PollItem(item) ==
    IF item.kind = "error"
    THEN Yielded([ ok |-> FALSE, value |-> NoEvent ], OtherError("transport", item.data))
    ELSE LET d == DeserializeSseMessageEvent(item.data) IN
         IF d.ok
         THEN Yielded(d, NoError)
         ELSE Yielded(d, OtherError("decode", ParseError(item.data)))

\* The flag after Poll::Ready(Some(..)): poll_next leaves it as it is.
TerminatedAfterItem(t, y) == t

\* A decoder that forgets to set the flag.
TerminatedAfterEndKept(t) == t

\* The flag after Poll::Ready(None): *this.terminated = true.
TerminatedAfterEnd(t) == TRUE

\* SseMessageEventStream::new
NewDecoder ==
    /\ pc = "idle"
    /\ op' = "SseMessageEventStream"
    /\ resp' = SseResponse
    /\ terminated' = FALSE
    /\ pc' = "polling"
    /\ UNCHANGED << built, sent, wire, ended, projector, calls, ret, result, out, last,
                    upolls, client, given, hook, hooked, shared >>

\* if *this.terminated { return Poll::Ready(None); }
PollTerminated ==
    /\ terminated
    /\ last' = Polled("end", 0)
    /\ UNCHANGED << wire, ended, terminated, out, upolls >>

\* The loop passes over k - 1 items and returns the k-th.
PollYields ==
    /\ ~terminated
    /\ ~ended
    /\ \E k \in 1 .. (MaxFrames - Len(wire)) :
         \E skipped \in [ 1 .. (k - 1) -> Skipped ], item \in PollItems :
           /\ Returns(item)
           /\ upolls + k <= MaxPolls
           /\ wire' = wire \o skipped \o << item >>
           /\ upolls' = upolls + k
           /\ out' = Append(out, PollItem(item))
           /\ terminated' = TerminatedAfterItem(terminated, PollItem(item))
           /\ last' = Polled("item", k)
    /\ UNCHANGED ended

\* The loop passes over k items and the stream answers None.
PollEnds ==
    /\ ~terminated
    /\ \E k \in 0 .. (IF ended THEN 0 ELSE MaxFrames - Len(wire)) :
         \E skipped \in [ 1 .. k -> Skipped ] :
           /\ upolls + k + 1 <= MaxPolls
           /\ wire' = wire \o skipped
           /\ upolls' = upolls + k + 1
           /\ last' = Polled("end", k + 1)
    /\ ended' = TRUE
    /\ terminated' = TerminatedAfterEnd(terminated)
    /\ UNCHANGED out

\* The loop passes over k items and the stream answers Pending.
PollPending ==
    /\ ~terminated
    /\ ~ended
    /\ upolls - Len(wire) < MaxPending
    /\ \E k \in 0 .. (MaxFrames - Len(wire)) :
         \E skipped \in [ 1 .. k -> Skipped ] :
           /\ upolls + k + 1 <= MaxPolls
           /\ wire' = wire \o skipped
           /\ upolls' = upolls + k + 1
           /\ last' = Polled("pending", k + 1)
    /\ UNCHANGED << ended, terminated, out >>

\* SseMessageEventStream::poll_next
PollNext ==
    /\ pc = "polling"
    /\ \/ PollTerminated
       \/ PollYields
       \/ PollEnds
       \/ PollPending
    /\ UNCHANGED << pc, op, built, sent, resp, projector, calls, ret, result,
                    client, given, hook, hooked, shared >>

\* ---------------------------------------------------------- specification

\* No call is made concurrently.
InitShared ==
    /\ running = <<>>
    /\ stopcall = NoResult
    /\ apis = <<>>

\* The calls of the model are made on Client::new("https://api.dify.ai",
\* "API_KEY").
Init ==
    /\ client = new("https://api.dify.ai", "API_KEY").config
    /\ InitSingle
    /\ InitShared

Next ==
    \/ ChatMessages
    \/ BlockingRun
    \/ ClientChatMessages
    \/ MessagesFeedbacks
    \/ StreamTaskStop
    \/ MessagesSuggested
    \/ Conversations
    \/ Messages
    \/ ConversationsRenaming
    \/ ConversationsDelete
    \/ TextToAudio
    \/ ClientTextToAudio
    \/ Parameters
    \/ Meta
    \/ ClientNew
    \/ ClientNewWithConfig
    \/ StreamStart
    \/ StreamNext
    \/ StreamEnd
    \/ NewDecoder
    \/ PollNext

Spec == Init /\ [][Next]_vars

\* --------------------------------- calls made concurrently on one client

\* The streaming calls in flight at once.
CallIds == { 1, 2 }

\* The items the event streams of concurrent calls yield: events, a terminal
\* event, and a frame that fails the call.
SharedItems ==
    { Frame("message", d) : d \in { TxtMsgHi, TxtMsgYo, TxtMsgEnd, TxtTts } }

\* The callback each concurrent call is given.
ProjectorOf(c) == IF c = 1 THEN "answers" ELSE "variants"

\* A call that has not been made yet.
NotStarted ==
    [ pc |-> "idle", url |-> "", projector |-> "none", wire |-> <<>>, ended |-> FALSE,
      calls |-> <<>>, ret |-> <<>>, result |-> NoResult ]

\* A stop call that has not been made yet.
NotStopped == [ pc |-> "idle", given |-> NoRequest, seen |-> <<>>, result |-> NoResult ]

\* One accumulator for all the calls of a client.
RetOfFirst(run, c) == run[1].ret

\* let mut ret: Vec<T> = Vec::new(): the accumulator a call's loop pushes
\* into is a local of that call.
RetOf(run, c) == run[c].ret

\* A stop that resolves the streaming calls in flight.
AfterStopCancels(run) ==
    [ c \in DOMAIN run |->
        IF run[c].pc = "streaming"
        THEN [ run[c] EXCEPT !.pc = "done", !.result = OkList(run[c].ret) ]
        ELSE run[c] ]

\* What stream_task_stop does to the streaming calls in flight: nothing, it
\* has no handle on them.
AfterStop(run) == run

InitConcurrent ==
    /\ client = ConfigDefault
    /\ InitSingle
    /\ running = [ c \in CallIds |-> NotStarted ]
    /\ stopcall = NotStopped
    /\ apis = <<>>

\* Api::chat_messages_stream of call c, up to the loop.
SharedStart(c) ==
    /\ running[c].pc = "idle"
    /\ running' = [ running EXCEPT ![c] =
                      [ @ EXCEPT !.pc = "streaming",
                                 !.url = build_request_api(client, "chat_messages_stream"),
                                 !.projector = ProjectorOf(c) ] ]
    /\ UNCHANGED << client, single, stopcall, apis >>

\* One pass of the loop of call c.
SharedNext(c) ==
    /\ running[c].pc = "streaming"
    /\ Len(running[c].wire) < MaxShared
    /\ \E item \in SharedItems :
         LET s == DriverItem(running[c].projector, RetOf(running, c), item) IN
         running' = [ running EXCEPT ![c] =
                        [ @ EXCEPT !.wire = Append(@, item),
                                   !.ret = s.ret,
                                   !.calls = @ \o s.called,
                                   !.result = s.result,
                                   !.pc = IF s.next = "continue" THEN "streaming" ELSE "done" ] ]
    /\ UNCHANGED << client, single, stopcall, apis >>

\* The loop of call c ends: its stream answers None.
SharedEnd(c) ==
    /\ running[c].pc = "streaming"
    /\ running' = [ running EXCEPT ![c] =
                      [ @ EXCEPT !.ended = TRUE,
                                 !.result = DriverEnd(RetOf(running, c)),
                                 !.pc = "done" ] ]
    /\ UNCHANGED << client, single, stopcall, apis >>

\* Api::chat_messages_stop, made while the streaming calls are in flight.
SharedStop ==
    /\ stopcall.pc = "idle"
    /\ \E task_id \in TaskIds :
         stopcall' =
           [ pc     |-> "done",
             given  |-> StreamTaskStopRequest(task_id, "u1"),
             seen   |-> [ c \in CallIds |-> Len(running[c].calls) ],
             result |-> IF task_id = ""
                        THEN Err(OtherError("validation", "StreamTaskStopRequest.TaskId Illegal"))
                        ELSE parse_response("ResultResponse", TxtResult) ]
    /\ running' = AfterStop(running)
    /\ UNCHANGED << client, single, apis >>

NextConcurrent ==
    \/ \E c \in CallIds : SharedStart(c)
    \/ \E c \in CallIds : SharedNext(c)
    \/ \E c \in CallIds : SharedEnd(c)
    \/ SharedStop

Concurrent == InitConcurrent /\ [][NextConcurrent]_vars

\* ------------------------------------- Api handles made from one client

\* The handles made from the client with client.api().
ApiIds == { 1, 2 }

\* Api::new(client): before_send_hook is None.  sent holds the requests the
\* handle's calls handed to the transport, seen the handles that had a hook
\* at each of them, results what the calls returned.
ApiNew ==
    [ hook |-> FALSE, pc |-> "idle", sent |-> <<>>, seen |-> <<>>, results |-> <<>> ]

\* One hook for all the handles of a client.
HookOfClient(a) == \E b \in ApiIds : apis[b].hook

\* self.before_send_hook: the hook a call applies is that of the handle it
\* is made on.
HookOf(a) == apis[a].hook

InitHandles ==
    /\ client = ConfigDefault
    /\ InitSingle
    /\ running = <<>>
    /\ stopcall = NoResult
    /\ apis = [ a \in ApiIds |-> ApiNew ]

\* Api::before_send on handle a: it takes &mut self, so no call of the
\* handle is in flight.
ApiBeforeSend(a) ==
    /\ apis[a].pc = "idle"
    /\ ~apis[a].hook
    /\ apis' = [ apis EXCEPT ![a] = [ @ EXCEPT !.hook = TRUE ] ]
    /\ UNCHANGED << client, single, running, stopcall >>

\* Api::chat_messages on handle a, up to the await of the send.
ApiSend(a) ==
    /\ apis[a].pc = "idle"
    /\ Len(apis[a].sent) < MaxCalls
    /\ apis' = [ apis EXCEPT ![a] =
                   [ @ EXCEPT !.pc = "sent",
                              !.sent = Append(@, send(HookOf(a),
                                                      Request(client, "chat_messages",
                                                              SetResponseMode(RunRequest("blocking"),
                                                                              "blocking")))),
                              !.seen = Append(@, { b \in ApiIds : apis[b].hook }) ] ]
    /\ UNCHANGED << client, single, running, stopcall >>

\* Api::chat_messages on handle a, from the response on.
ApiReturn(a) ==
    /\ apis[a].pc = "sent"
    /\ \E text \in { TxtChat, TxtNotFound } :
         apis' = [ apis EXCEPT ![a] =
                     [ @ EXCEPT !.pc = "idle",
                                !.results = Append(@, parse_response("ChatMessagesResponse",
                                                                     text)) ] ]
    /\ UNCHANGED << client, single, running, stopcall >>

NextHandles ==
    \/ \E a \in ApiIds : ApiBeforeSend(a)
    \/ \E a \in ApiIds : ApiSend(a)
    \/ \E a \in ApiIds : ApiReturn(a)

Handles == InitHandles /\ [][NextHandles]_vars

\* ================================================================ claims

\* The success shape a blocking operation of the model expects.
ShapeOf(o) == IF o = "messages_feedbacks" THEN "ResultResponse" ELSE "ChatMessagesResponse"

BlockingOps == { "chat_messages", "Client::chat_messages", "messages_feedbacks" }

\* A blocking call has returned after reading a response body.
Reconciled == pc = "done" /\ op \in BlockingOps /\ resp.kind = "text"

\* C1: the Response Reconciler cascade.  Whenever a blocking call has read a
\* body, the call returns the typed success value if the body deserializes
\* as the expected shape (also when it deserializes as a Service Error too);
\* otherwise it fails with exactly the body's {code, message, status} if the
\* body deserializes as that; otherwise it fails with the Service Error
\* unknown_error / 503 whose message is the raw body text.
C1_ReconcilerCascade ==
    Reconciled =>
        LET data == Deserialize(ShapeOf(op), resp.text)
            err  == DeserializeErrorResponse(resp.text)
        IN  /\ data.ok => result.kind = "ok" /\ result.value = data.value
            /\ ~data.ok /\ err.ok =>
                 /\ result.kind = "err"
                 /\ result.err.type = "service"
                 /\ result.err.code = err.value.code
                 /\ result.err.message = err.value.message
                 /\ result.err.status = err.value.status
            /\ ~data.ok /\ ~err.ok =>
                 /\ result.kind = "err"
                 /\ result.err.type = "service"
                 /\ result.err.code = "unknown_error"
                 /\ result.err.status = 503
                 /\ result.err.message = resp.text

\* C1's case: a body that is both a success value and a Service Error came
\* back, and the call returned the success value.
C1_Witness ==
    /\ Reconciled
    /\ Deserialize(ShapeOf(op), resp.text).ok
    /\ DeserializeErrorResponse(resp.text).ok
    /\ result.kind = "ok"
    /\ Member(result.value, "result") = Str("success")

\* ------------------------------------------------------ streaming drivers

Streaming == op \in StreamOps

\* A streaming call has returned Ok.
StreamOk == Streaming /\ pc = "done" /\ result.kind = "ok"

\* A streaming call has returned Err.
StreamErr == Streaming /\ pc = "done" /\ result.kind = "err"

\* An item of the stream is a frame named "message".
IsMessageFrame(item) == item.kind = "frame" /\ item.event = "message"

\* What SseMessageEvent's Deserialize makes of each data text the model
\* feeds, as a function of the text.
Deserialized ==
    [ d \in MessageData \cup OtherData |-> DeserializeSseMessageEvent(d) ]

\* An item of the stream is a frame named "message" that deserializes.
WellFormed(item) == IsMessageFrame(item) /\ Deserialized[item.data].ok

\* An item that must fail a call: an error of the transport, or a frame
\* named "message" whose data does not deserialize.
Malformed(item) ==
    item.kind = "error" \/ (IsMessageFrame(item) /\ ~Deserialized[item.data].ok)

\* The events of the well-formed frames of w, in order.
RECURSIVE EventsOf(_)
EventsOf(w) ==
    IF w = <<>>
    THEN <<>>
    ELSE IF WellFormed(Head(w))
    THEN << Deserialized[Head(w).data].value >> \o EventsOf(Tail(w))
    ELSE EventsOf(Tail(w))

\* The values v for which p returns Some(v) on the events evs, in order.
RECURSIVE SomeValues(_, _)
SomeValues(p, evs) ==
    IF evs = <<>>
    THEN <<>>
    ELSE IF Project(p, Head(evs)).kind = "some"
    THEN << Project(p, Head(evs)).v >> \o SomeValues(p, Tail(evs))
    ELSE SomeValues(p, Tail(evs))

\* C2: order preservation.  When a streaming call returns Ok, the returned
\* list is exactly the values the projector returned Some for, one per
\* well-formed qualifying frame and in the frames' arrival order; an event
\* the projector answered None for contributes nothing.
C2_OrderPreserved ==
    StreamOk => result.list = SomeValues(projector, EventsOf(wire))

\* C2's case: two frames were projected to different values with a frame
\* projected to None between them, and the list holds the two in order.
C2_Witness ==
    /\ StreamOk
    /\ Len(wire) = 3
    /\ \A i \in 1 .. 3 : WellFormed(wire[i])
    /\ Project(projector, EventsOf(wire)[2]).kind = "none"
    /\ result.list = << "Hi", "Yo" >>

\* C3: fail-fast.  As soon as the stream yields an error of the transport or
\* a qualifying frame whose data is malformed, at whatever position, the
\* streaming call has failed as a whole: it returns an error and no list,
\* however many values it had accumulated.
C3_FailFast ==
    Streaming /\ (\E k \in 1 .. Len(wire) : Malformed(wire[k])) =>
        /\ pc = "done"
        /\ result.kind = "err"
        /\ result.list = <<>>
        /\ Malformed(wire[Len(wire)])
        /\ \A k \in 1 .. (Len(wire) - 1) : ~Malformed(wire[k])

\* C3's case: the third frame is malformed, two values had been accumulated,
\* and the call failed.
C3_Witness ==
    /\ StreamErr
    /\ Len(wire) = 3
    /\ IsMessageFrame(wire[3]) /\ Malformed(wire[3])
    /\ Len(ret) = 2
    /\ result.list = <<>>

\* C4: a failure of the projector is fail-fast.  If the projector returned an
\* error for an event, the call has failed with that same error, that event
\* is the last the projector was invoked with and comes from the last frame
\* read, and no list is returned.
C4_ProjectorFailFast ==
    Streaming =>
        \A i \in 1 .. Len(calls) :
            Project(projector, calls[i]).kind = "err" =>
                /\ pc = "done"
                /\ result.kind = "err"
                /\ result.err.type = "projector"
                /\ result.err.message = Project(projector, calls[i]).v
                /\ result.list = <<>>
                /\ i = Len(calls)
                /\ WellFormed(wire[Len(wire)])
                /\ DeserializeSseMessageEvent(wire[Len(wire)].data).value = calls[i]

\* C4's case: the projector failed on the second of two events, after a
\* value had been accumulated.
C4_Witness ==
    /\ StreamErr
    /\ Len(calls) = 2
    /\ Project(projector, calls[2]).kind = "err"
    /\ Len(ret) = 1
    /\ result.err.message = "boom"

\* C5: a Service Error payload is surfaced verbatim by the streaming calls
\* too.  When the response to a streaming call is a plain {code, message,
\* status} body and not an event stream, the call fails with that Service
\* Error; it does not return a list.
C5_StreamServiceError ==
    /\ Streaming
    /\ pc = "done"
    /\ resp.kind = "text"
    /\ DeserializeErrorResponse(resp.text).ok
    => /\ result.kind = "err"
       /\ result.err = ServiceError(DeserializeErrorResponse(resp.text).value)

\* The number of items of w that satisfy the test.
Count(w, Test(_)) == Cardinality({ i \in 1 .. Len(w) : Test(w[i]) })

\* An item is a frame with another name than "message".
IsOtherFrame(item) == item.kind = "frame" /\ item.event # "message"

\* An item is one the decoder answers with an item of its own.
IsAnswered(item) == item.kind = "error" \/ IsMessageFrame(item)

\* C6: SSE filtering.  A frame whose outer event name is not "message"
\* produces no Stream Event, no invocation of the projector and no failure,
\* whatever its data: a driver has invoked the projector once per
\* well-formed frame named "message" and has never failed on another frame;
\* the decoder has yielded one item per frame named "message" or error of
\* the stream, and none for the other frames.
C6_OnlyMessageFrames ==
    /\ Streaming =>
         /\ Len(calls) = Count(wire, WellFormed)
         /\ result.kind = "err" /\ wire # <<>> => ~IsOtherFrame(wire[Len(wire)])
    /\ op = "SseMessageEventStream" =>
         Len(out) = Count(wire, IsAnswered)

\* C6's case for a driver: two frames with another name, one of them with
\* data that is not JSON, went by and the call returned an empty list without
\* invoking the projector.
C6_Witness ==
    /\ StreamOk
    /\ Len(wire) = 2
    /\ IsOtherFrame(wire[1]) /\ wire[1].data = TxtHtml
    /\ IsOtherFrame(wire[2]) /\ wire[2].data = TxtMsgHi
    /\ calls = <<>>
    /\ result.list = <<>>

\* An item is a frame named "message" whose data is a JSON object with an
\* event name outside the known set.
HasUnknownEvent(item) ==
    /\ IsMessageFrame(item)
    /\ Json(item.data).wf
    /\ Member(Json(item.data), "event").t = "str"
    /\ Member(Json(item.data), "event").s \notin KnownEvents

\* C7: closed event taxonomy.  A qualifying frame whose payload names an
\* event outside the known set fails the decode: a driver has failed at that
\* frame with a decode error and has not invoked the projector for it, and
\* the decoder has yielded a failure for it.
C7_ClosedTaxonomy ==
    \A k \in 1 .. Len(wire) :
        HasUnknownEvent(wire[k]) =>
            /\ Streaming =>
                 /\ k = Len(wire)
                 /\ pc = "done"
                 /\ result.kind = "err"
                 /\ result.err.type = "decode"
                 /\ \A i \in 1 .. Len(calls) :
                        calls[i].variant # Member(Json(wire[k].data), "event").s
                 /\ Len(calls) = Count(SubSeq(wire, 1, k - 1), IsMessageFrame)
            /\ op = "SseMessageEventStream" =>
                 LET j == Count(SubSeq(wire, 1, k), IsAnswered) IN
                 /\ j <= Len(out)
                 /\ ~out[j].ok
                 /\ out[j].err.type = "decode"

\* C7's case: a tts_message event arrived after a message and the call
\* failed.
C7_Witness ==
    /\ StreamErr
    /\ Len(wire) = 2
    /\ wire[1] = Frame("message", TxtMsgHi)
    /\ wire[2] = Frame("message", TxtTts)
    /\ Len(calls) = 1
    /\ result.err.message = "data: " \o TxtTts \o ", error: unknown variant tts_message"

\* -------------------------------------------------------------- decoder

Decoding == op = "SseMessageEventStream"

\* C8: after SseMessageEventStream has yielded a failure item (an error of
\* the stream under it, or a qualifying frame that does not deserialize) it
\* yields no further item: a failure item is the last item.
C8_NothingAfterFailure ==
    Decoding => \A i \in 1 .. Len(out) : ~out[i].ok => i = Len(out)

\* C9: exhaustion is final.  Once the stream under the decoder is exhausted
\* the decoder is terminated; a terminated decoder stays terminated, and a
\* poll of it returns nothing, yields nothing and does not poll the stream
\* under it.
C9_ExhaustionFinal ==
    [][ /\ Decoding' /\ ended' => terminated'
        /\ Decoding /\ terminated =>
             /\ terminated'
             /\ last' = Polled("end", 0)
             /\ upolls' = upolls
             /\ wire' = wire
             /\ out' = out ]_vars

\* C9's case: the stream ended after an item, and a later poll was answered
\* from the flag.
C9_Witness ==
    /\ Decoding
    /\ ended
    /\ terminated
    /\ Len(out) >= 1
    /\ last = Polled("end", 0)

Returned == pc = "done"

\* The call returned a validation error.
ValidationFailed == result.kind = "err" /\ result.err.type = "validation"

\* The input an operation validates is empty: the task id of a stop, the
\* message id of suggested and feedbacks, the conversation id of messages,
\* rename and delete, the user of conversations, parameters and meta, the
\* text of text_to_audio.
InvalidInput ==
    \/ op \in StopOps /\ given.task_id = Str("")
    \/ op \in { "messages_suggested", "messages_feedbacks" } /\ given.message_id = Str("")
    \/ /\ op \in { "messages", "conversations_renaming", "conversations_delete" }
       /\ given.conversation_id = Str("")
    \/ op \in { "conversations", "parameters", "meta" } /\ given.user = Str("")
    \/ op = "text_to_audio" /\ given.text = Str("")

\* C11: validation precedes I/O.  A call whose validated input is empty
\* returns a validation error, the transport has not been invoked at all and
\* the before-send hook has not been invoked.
C11_ValidationPrecedesIO ==
    Returned /\ InvalidInput =>
        /\ ValidationFailed
        /\ sent = <<>>
        /\ resp = NoResponse
        /\ hooked = 0

\* C11's case: a stop with an empty task id, on an Api that has a hook.
C11_Witness ==
    /\ Returned
    /\ op = "workflows_stop"
    /\ given = StreamTaskStopRequest("", "u1")
    /\ hook
    /\ ValidationFailed
    /\ sent = <<>>
    /\ hooked = 0

\* C12: rename validation.  conversations_renaming with a non-empty
\* conversation id fails with a validation error, and sends nothing, exactly
\* when the request has neither a name nor the auto-generate flag; with
\* auto_generate set the name may be left out and the request is sent.
C12_RenameValidation ==
    Returned /\ op = "conversations_renaming" /\ given.conversation_id # Str("") =>
        /\ ValidationFailed <=> (given.name = Null /\ given.auto_generate = Bool(FALSE))
        /\ ValidationFailed => sent = <<>>
        /\ given.auto_generate = Bool(TRUE) => Len(sent) = 1

\* The operations whose request carries a user.
UserOps ==
    StopOps \cup { "messages_feedbacks", "messages", "conversations",
                   "conversations_renaming", "conversations_delete",
                   "parameters", "meta", "text_to_audio" }

\* C13: an empty user is a validation error.  Every call whose request
\* carries a user returns a validation error, and sends nothing, when the
\* user is empty.
C13_EmptyUserRejected ==
    Returned /\ op \in UserOps /\ given.user = Str("") =>
        /\ ValidationFailed
        /\ sent = <<>>

\* C14: delete 204 semantics.  conversations_delete with a non-empty
\* conversation id that got a response succeeds, with no value, if and only
\* if the status is 204; for any other status it fails with the Service Error
\* the body parses as, or else with unknown_error / 503 and the raw body as
\* message.
C14_Delete204 ==
    /\ Returned
    /\ op = "conversations_delete"
    /\ given.conversation_id # Str("")
    /\ resp.kind = "text"
    => LET err == DeserializeErrorResponse(resp.text) IN
       /\ result.kind = "ok" <=> resp.status = 204
       /\ result.kind = "ok" => result.value = Unit
       /\ resp.status # 204 =>
            /\ result.kind = "err"
            /\ result.err.type = "service"
            /\ err.ok => /\ result.err.code = err.value.code
                         /\ result.err.message = err.value.message
                         /\ result.err.status = err.value.status
            /\ ~err.ok => /\ result.err.code = "unknown_error"
                          /\ result.err.status = 503
                          /\ result.err.message = resp.text

\* C14's case: status 200 with a body that looks like a success.
C14_Witness ==
    /\ Returned
    /\ op = "conversations_delete"
    /\ resp = TextResponse(200, TxtResult)
    /\ result.kind = "err"
    /\ result.err.code = "unknown_error"
    /\ result.err.message = TxtResult

\* The stop path of a feature with the task id in it.
StopUrl(o, task_id) ==
    "https://api.dify.ai" \o
    ( CASE o = "chat_messages_stop" -> "/v1/chat-messages/" \o task_id \o "/stop"
        [] o = "workflows_stop" -> "/v1/workflows/" \o task_id \o "/stop"
        [] OTHER -> "/v1/completion-messages/" \o task_id \o "/stop" )

\* A stop call with a non-empty task id has returned.
Stopped == Returned /\ op \in StopOps /\ given.task_id # Str("")

\* What C15 says of a stop but for the body's task id: one POST to the
\* feature's stop path with the id in it, the caller's user in the body, and
\* the reply reconciled as a ResultResponse.
StopShape ==
    /\ Len(sent) = 1
    /\ sent[1].method = "POST"
    /\ sent[1].url = StopUrl(op, given.task_id.s)
    /\ "user" \in DOMAIN sent[1].body
    /\ sent[1].body.user = given.user
    /\ resp.kind = "text" => result = parse_response("ResultResponse", resp.text)

\* C15 as stated: the request of a stop has the shape above and its body has
\* no task id.
C15_StopRequestShape ==
    Stopped => StopShape /\ "task_id" \notin DOMAIN sent[1].body

\* C15, amended: the request of a stop has the shape above, and its body still
\* has a task_id member, which is the empty string and not the id supplied.
C15_StopRequestBlanked ==
    Stopped =>
        /\ StopShape
        /\ "task_id" \in DOMAIN sent[1].body
        /\ sent[1].body.task_id = Str("")

\* C15's case: a workflow task was stopped.
C15_Witness ==
    /\ Stopped
    /\ op = "workflows_stop"
    /\ given = StreamTaskStopRequest("t1", "u1")
    /\ sent[1].url = "https://api.dify.ai/v1/workflows/t1/stop"
    /\ sent[1].body = [ task_id |-> Str(""), user |-> Str("u1") ]
    /\ result.kind = "ok"

\* ------------------------------------------------------ concurrent calls

\* The stop call returns in this step.
StopReturns == stopcall.pc = "idle" /\ stopcall'.pc = "done"

\* Call c resolves in this step.
Resolves(c) == running[c].pc # "done" /\ running'[c].pc = "done"

\* C16: stop is fire-and-forget.  The step in which a stop call returns, with
\* a result or with an error, changes nothing of the streaming calls in
\* flight; a streaming call resolves only in a step of its own, when its
\* stream is exhausted or an item fails it.
C16_StopFireAndForget ==
    [][ /\ StopReturns => running' = running
        /\ \A c \in CallIds :
             Resolves(c) =>
                 /\ ~StopReturns
                 /\ running'[c].ended \/ running'[c].result.kind = "err" ]_vars

\* C16's case: the stop call has returned Ok, the first call is still
\* running and its projector has been handed an event that arrived after the
\* stop returned.
C16_Witness ==
    /\ stopcall.pc = "done"
    /\ stopcall.result.kind = "ok"
    /\ running[1].pc = "streaming"
    /\ Len(running[1].calls) > stopcall.seen[1]

\* What a driver run alone on the items w, with the accumulator acc, comes
\* to: the last pass of its loop.
RECURSIVE Alone(_, _, _)
Alone(p, w, acc) ==
    IF w = <<>>
    THEN Continue(acc, <<>>)
    ELSE LET s == DriverItem(p, acc, Head(w)) IN
         IF s.next = "return" THEN s ELSE Alone(p, Tail(w), s.ret)

\* The result of a driver run alone on the items w, which then ended or not.
AloneResult(p, w) ==
    LET s == Alone(p, w, <<>>) IN
    IF s.next = "return" THEN s.result ELSE DriverEnd(s.ret)

\* C17: no shared mutable state.  In every interleaving of the calls made on
\* one client, what each streaming call has accumulated, and what it
\* returns, is what it comes to when run alone on its own items; and the
\* client's configuration is what it was constructed with.
C17_NoSharedState ==
    /\ client = ConfigDefault
    /\ \A c \in DOMAIN running :
         /\ running[c].ret = Alone(running[c].projector, running[c].wire, <<>>).ret
         /\ running[c].pc = "done" =>
              running[c].result = AloneResult(running[c].projector, running[c].wire)

\* C17's case: both calls were in the middle of their streams when the stop
\* call returned, and each has returned the list of its own events.
C17_Witness ==
    /\ stopcall.pc = "done"
    /\ stopcall.seen = << 1, 1 >>
    /\ running[1].pc = "done"
    /\ running[2].pc = "done"
    /\ running[1].result.list = << "Hi", "Yo" >>
    /\ running[2].result.list = << "message_end", "message" >>

\* ------------------------------------------------------- decoded events

\* The Stream Events decoded so far: those a driver handed to the projector,
\* those the decoder yielded.
Decoded ==
    IF Decoding
    THEN { out[i].event : i \in { j \in 1 .. Len(out) : out[j].ok } }
    ELSE { calls[i] : i \in 1 .. Len(calls) }

\* C18: every decoded Stream Event that is neither Ping nor a terminal
\* variant carries a task_id.
C18_TaskIdCarried ==
    \A ev \in Decoded :
        ev.variant \notin ({ "ping" } \cup TerminalEvents) => Member(ev, "task_id").t = "str"

\* The text t occurs in the text s.
Contains(s, t) ==
    \E i \in 1 .. (Len(s) - Len(t) + 1) : SubSeq(s, i, i + Len(t) - 1) = t

\* The failure carries the raw data and the parse error of the frame.
CarriesBoth(err, frame) ==
    /\ Contains(err.message, frame.data)
    /\ Contains(err.message, ParseError(frame.data))

\* C19: a deserialization failure on a qualifying frame is surfaced as a
\* failure that carries both the raw data of the frame and the parse error,
\* by the streaming drivers and by the decoder.
C19_DecodeFailureCarriesBoth ==
    /\ StreamErr /\ result.err.type = "decode" =>
         CarriesBoth(result.err, wire[Len(wire)])
    /\ Decoding =>
         \A i \in 1 .. Len(out) :
             ~out[i].ok /\ out[i].err.type = "decode" =>
                 CarriesBoth(out[i].err, SelectSeq(wire, IsAnswered)[i])

\* The methods that run the single-body path.
BlockingRunOps == { "chat_messages", "workflows_run", "completion_messages" }

FailureTypes == { "validation", "transport", "header", "service", "decode", "projector" }

\* C21: no retries.  Every call hands at most one request to the transport
\* and invokes the hook at most once; a failure, of whatever kind, ends the
\* call: the call has returned it, a validation failure with nothing sent,
\* any other with the one request sent, and a streaming call has read no
\* item past the one that failed it.
C21_NoRetries ==
    /\ Len(sent) <= 1
    /\ hooked <= 1
    /\ result.kind = "err" =>
         /\ Returned
         /\ result.err.type \in FailureTypes
         /\ Len(sent) = (IF result.err.type = "validation" THEN 0 ELSE 1)
         /\ result.list = <<>>
         /\ Streaming /\ resp.kind = "sse" =>
              /\ wire # <<>>
              /\ Alone(projector, SubSeq(wire, 1, Len(wire) - 1), <<>>).next = "continue"
              /\ DriverItem(projector, ret, wire[Len(wire)]).result = result

\* C21's case: a blocking call on an Api with a hook whose send failed; the
\* one request went out once and the failure came back.
C21_Witness ==
    /\ Returned
    /\ op = "chat_messages"
    /\ hook
    /\ resp = TransportFailed
    /\ result = SendError
    /\ Len(sent) = 1
    /\ hooked = 1

\* ------------------------------------------------------- before-send hook

\* C22: the before-send hook.  Every request a call has handed to the
\* transport is the request create_request built, whole (the client's token,
\* a method, a path with no placeholder left), with the hook applied to it
\* if the Api has one and as built if it has none; the hook has been invoked
\* once for each request sent and at no other time.  The hook of the model
\* rewrites the Authorization header: the request then carries the hook's
\* token and is otherwise as built, and the client's configuration is what it
\* was constructed with.
C22_HookOncePerSend ==
    /\ Len(sent) = Len(built)
    /\ hooked = (IF hook THEN Len(sent) ELSE 0)
    /\ \A i \in 1 .. Len(sent) :
         /\ built[i].authorization = "Bearer " \o client.api_key
         /\ built[i].method \in { "GET", "POST", "DELETE" }
         /\ ~Contains(built[i].url, "{")
         /\ hook => /\ sent[i] = Hook(built[i])
                    /\ sent[i].authorization = "Bearer OTHER_KEY"
                    /\ [ sent[i] EXCEPT !.authorization = built[i].authorization ] = built[i]
         /\ ~hook => sent[i] = built[i]
    /\ client = ConfigDefault

\* C22's case: a streaming call on an Api with a hook has read two events and
\* returned; its one request carries the hook's token, and the hook was
\* invoked once.
C22_Witness ==
    /\ StreamOk
    /\ hook
    /\ Len(wire) = 2
    /\ Len(sent) = 1
    /\ built[1].authorization = "Bearer API_KEY"
    /\ sent[1].authorization = "Bearer OTHER_KEY"
    /\ sent[1].url = built[1].url
    /\ hooked = 1

\* ------------------------------------------------------------------- ping

\* A frame named "message" whose data is {"event":"ping"}.
PingFrame == Frame("message", TxtPing)

\* SseMessageEvent::Ping
Ping == [ variant |-> "ping", f |-> NoMembers ]

IsPingFrame(item) == item = PingFrame

\* C23: ping pass-through.  A frame named "message" with the data
\* {"event":"ping"} decodes to Ping and is not filtered: a driver has handed
\* Ping to the projector for each such frame it read, in the frame's place
\* among the events, and has not failed on it; the decoder has yielded
\* Ok(Ping) for it.  Ping is in the list returned once for each time the
\* projector answered Some for it, and not at all if the projector answers
\* None.
C23_PingPassThrough ==
    /\ DeserializeSseMessageEvent(TxtPing) = [ ok |-> TRUE, value |-> Ping ]
    /\ \A k \in 1 .. Len(wire) :
         IsPingFrame(wire[k]) =>
             /\ Streaming =>
                  LET j == Count(SubSeq(wire, 1, k), WellFormed) IN
                  /\ j <= Len(calls)
                  /\ calls[j] = Ping
                  /\ k = Len(wire) /\ result.kind = "err" => result.err.type = "projector"
             /\ Decoding =>
                  LET j == Count(SubSeq(wire, 1, k), IsAnswered) IN
                  /\ j <= Len(out)
                  /\ out[j] = Yielded([ ok |-> TRUE, value |-> Ping ], NoError)
    /\ StreamOk =>
         Count(result.list, LAMBDA v : v = "ping") =
             (IF Project(projector, Ping).kind = "some" THEN Count(wire, IsPingFrame) ELSE 0)

\* C23's case: a ping arrived between two messages; the projector that
\* answers Some for every event was handed all three, and the list returned
\* has the ping in its place.
C23_Witness ==
    /\ StreamOk
    /\ projector = "variants"
    /\ wire = << Frame("message", TxtMsgHi), PingFrame, Frame("message", TxtMsgYo) >>
    /\ calls[2] = Ping
    /\ result.list = << "message", "ping", "message" >>

\* --------------------------------------------------- failures of a call

\* A call that reads one body, or none, has returned a failure.
BlockingFailed == Returned /\ ~Streaming /\ ~Decoding /\ result.kind = "err"

\* C24: whenever a blocking call fails, the failure is a Service Error whose
\* message is not empty, or another failure whose text is not empty, whatever
\* the body of the response, an empty body included.
C24_FailureNotEmpty ==
    BlockingFailed => result.err.message # ""

\* ----------------------------------------------------------- construction

\* C25: client construction.  Client::new(base_url, api_key) yields a client
\* whose configuration holds that base_url, that api_key and a timeout of 30
\* seconds; Client::new_with_config(c) yields a client whose configuration is
\* c field for field, a zero timeout included; and no call changes the
\* configuration of the client it is made on.
C25_ClientConstruction ==
    /\ Returned /\ op = "Client::new" =>
         /\ result.kind = "ok"
         /\ result.value.f = [ base_url |-> given.base_url, api_key |-> given.api_key,
                               timeout |-> Num(30) ]
    /\ Returned /\ op = "Client::new_with_config" =>
         /\ result.kind = "ok"
         /\ result.value.f = given
    /\ client = [ base_url |-> "https://api.dify.ai", api_key |-> "API_KEY", timeout |-> 30 ]

\* C25's case: a client was constructed from a base URL and an api key that
\* are not the defaults.
C25_Witness ==
    /\ Returned
    /\ op = "Client::new"
    /\ given = [ base_url |-> Str("http://localhost:5001/"), api_key |-> Str("app-2") ]
    /\ result.value.f.base_url = Str("http://localhost:5001/")
    /\ result.value.f.api_key = Str("app-2")
    /\ result.value.f.timeout = Num(30)

\* ------------------------------------------------- the hook's ownership

\* The request chat_messages builds on the client of the model.
Plain == Request(ConfigDefault, "chat_messages", RunRequest("blocking"))

\* C26: the hook belongs to the Api handle it was set on.  In every
\* interleaving of hooks being set and calls being made on handles of one
\* client, every request sent through a handle that has no hook is the
\* request as built, with the client's token, whatever hooks the other
\* handles had when it was sent; a request sent through a handle carries the
\* hook's token only if that handle has a hook, and then so do the requests
\* the handle sends after it; and the client's configuration is what it was
\* constructed with.
C26_HookOwnedByApi ==
    /\ \A a \in DOMAIN apis :
         \A i \in 1 .. Len(apis[a].sent) :
             /\ apis[a].sent[i] \in { Plain, Hook(Plain) }
             /\ ~apis[a].hook => apis[a].sent[i] = Plain
             /\ apis[a].sent[i] = Hook(Plain) =>
                  /\ a \in apis[a].seen[i]
                  /\ \A j \in i .. Len(apis[a].sent) : apis[a].sent[j] = Hook(Plain)
             /\ a \in apis[a].seen[i] => apis[a].sent[i] = Hook(Plain)
    /\ client = ConfigDefault

\* C26's case: the second handle, which has no hook, sent a request before
\* the first handle's hook was set and another after it; both carry the
\* client's token, while the first handle's request carries the hook's.
C26_Witness ==
    /\ apis[1].hook
    /\ ~apis[2].hook
    /\ apis[2].seen = << {}, { 1 } >>
    /\ apis[2].sent = << Plain, Plain >>
    /\ apis[2].sent[2].authorization = "Bearer API_KEY"
    /\ apis[1].sent = << Plain, Hook(Plain) >>
    /\ apis[1].sent[2].authorization = "Bearer OTHER_KEY"

\* ----------------------------------------------------------- text to audio

AudioOps == { "text_to_audio", "Client::text_to_audio" }

\* A text_to_audio with a text that is not empty got a response.
AudioAnswered ==
    /\ Returned
    /\ op \in AudioOps
    /\ given.text # Str("")
    /\ resp.kind \in { "audio", "untyped", "text" }

\* C27: text_to_audio with a text that is not empty returns the raw bytes
\* of the response if and only if the response has a Content-Type that
\* begins with "audio/"; a response without a Content-Type fails; a response
\* of another content type fails through the Service Error cascade, with the
\* Service Error the body parses as or else with unknown_error / 503 and the
\* raw body, and never succeeds.
C27_AudioByContentType ==
    AudioAnswered =>
        /\ result.kind = "ok" <=> resp.kind = "audio"
        /\ result.kind = "ok" => result.value = Bytes
        /\ resp.kind = "untyped" => result.kind = "err" /\ result.err.type # "service"
        /\ resp.kind = "text" =>
             LET err == DeserializeErrorResponse(resp.text) IN
             /\ result.kind = "err"
             /\ result.err.type = "service"
             /\ err.ok => result.err = ServiceError(err.value)
             /\ ~err.ok => result.err = ServiceError(ErrorResponseUnknown(resp.text))

\* ------------------------------------------------------ the Error event

\* A frame named "message" whose data is an Error event.
IsErrorFrame(item) ==
    /\ WellFormed(item)
    /\ Deserialized[item.data].value.variant = "error"

\* C28: an Error event does not by itself fail a streaming call.  A driver
\* has handed the Error event of every such frame it read to the projector,
\* in the frame's place among the events; if the projector answered Ok for
\* it the call has not failed on that frame; and once the stream has ended
\* normally the call has returned Ok with the list accumulated from all the
\* events, those before and those after the Error event.
C28_ErrorEventDelivered ==
    Streaming =>
        /\ \A k \in 1 .. Len(wire) :
             IsErrorFrame(wire[k]) =>
                 LET j == Count(SubSeq(wire, 1, k), WellFormed) IN
                 /\ j <= Len(calls)
                 /\ calls[j] = Deserialized[wire[k].data].value
                 /\ Project(projector, calls[j]).kind # "err" /\ k = Len(wire) =>
                      result.kind # "err"
                 /\ result.kind = "err" /\ result.err.type = "projector" => k = Len(wire)
        /\ ended /\ (\E k \in 1 .. Len(wire) : IsErrorFrame(wire[k])) =>
             /\ StreamOk
             /\ result.list = ret
             /\ result.list = SomeValues(projector, EventsOf(wire))

\* C28's case: an Error event arrived between two messages, the projector
\* answered None for it, the stream ended and the call returned both answers.
C28_Witness ==
    /\ StreamOk
    /\ ended
    /\ projector = "answers"
    /\ wire = << Frame("message", TxtMsgHi), Frame("message", TxtEvError),
                 Frame("message", TxtMsgYo) >>
    /\ calls[2].variant = "error"
    /\ Member(calls[2], "message") = Str("boom")
    /\ result.list = << "Hi", "Yo" >>

\* ------------------------------------------------- the status is not read

\* The success shape each operation routed through parse_response expects.
ExpectedShape(o) ==
    CASE o = "chat_messages" -> "ChatMessagesResponse"
      [] o = "workflows_run" -> "WorkflowsRunResponse"
      [] o = "completion_messages" -> "CompletionMessagesResponse"
      [] o = "messages_suggested" -> "MessagesSuggestedResponse"
      [] o = "messages" -> "MessagesResponse"
      [] o = "conversations" -> "ConversationsResponse"
      [] o = "parameters" -> "ParametersResponse"
      [] o = "meta" -> "MetaResponse"
      [] OTHER -> "ResultResponse"

\* The blocking operations of Api routed through parse_response.
ParsedOps ==
    StopOps \cup { "chat_messages", "workflows_run", "completion_messages",
                   "messages_feedbacks", "messages_suggested", "messages",
                   "conversations", "conversations_renaming", "parameters", "meta" }

\* What an operation makes of a body, whatever the status it came with.
OutcomeOf(o, text) ==
    LET data == Deserialize(ExpectedShape(o), text)
        err  == DeserializeErrorResponse(text)
    IN  CASE data.ok -> Ok(data.value)
          [] err.ok  -> Err(ServiceError(err.value))
          [] OTHER   -> Err(ServiceError(ErrorResponseUnknown(text)))

\* C29: for every blocking operation routed through parse_response the
\* outcome is a function of the body alone.  The result of a call that read
\* a body is what the operation makes of that body, the same for every
\* status the body can come with; a body that deserializes as the success
\* shape is returned as success also with an error status.
C29_StatusIgnored ==
    Returned /\ op \in ParsedOps /\ resp.kind = "text" =>
        /\ \A st \in Statuses :
             /\ TextResponse(st, resp.text) \in BlockingAnswers
             /\ result = OutcomeOf(op, TextResponse(st, resp.text).text)
        /\ Deserialize(ExpectedShape(op), resp.text).ok => result.kind = "ok"

\* C29's case: a 404 whose body is {"result":"success"} came back to
\* messages_feedbacks, and the call returned success.
C29_Witness ==
    /\ Returned
    /\ op = "messages_feedbacks"
    /\ resp = TextResponse(404, TxtResult)
    /\ result.kind = "ok"
    /\ Member(result.value, "result") = Str("success")

\* ------------------------------------------- the drivers and the decoder

\* What a fold over SseMessageEventStream has come to after the items w of
\* the stream under it, from the k-th on: the decoder's items are those of
\* poll_next; the fold stops at the first Err, hands every Ok event to the
\* callback, stops at the callback's first Err and pushes what it answers
\* Some for.  at is the frame the fold failed at.
RECURSIVE FoldDecoder(_, _, _, _, _)
FoldDecoder(p, w, k, acc, called) ==
    IF k > Len(w)
    THEN [ failed |-> FALSE, at |-> 0, ret |-> acc, called |-> called ]
    ELSE IF ~Returns(w[k])
    THEN FoldDecoder(p, w, k + 1, acc, called)
    ELSE LET y == PollItem(w[k]) IN
         IF ~y.ok
         THEN [ failed |-> TRUE, at |-> k, ret |-> acc, called |-> called ]
         ELSE LET a == Project(p, y.event) IN
              CASE a.kind = "err" ->
                     [ failed |-> TRUE, at |-> k, ret |-> acc,
                       called |-> Append(called, y.event) ]
                [] a.kind = "some" ->
                     FoldDecoder(p, w, k + 1, Append(acc, a.v), Append(called, y.event))
                [] OTHER ->
                     FoldDecoder(p, w, k + 1, acc, Append(called, y.event))

\* C30: the three streaming drivers are equivalent to one another and to a
\* fold over SseMessageEventStream that stops at its first failure.
\* Whichever of the three was called, after the items it has read it has
\* invoked the projector with the events the fold invokes it with, in that
\* order, and accumulated the fold's list; it has failed exactly if the fold
\* fails, and then at the frame the fold fails at, which is the last it
\* read; and when it returns Ok it returns the fold's list.
C30_DriversAreFolds ==
    Streaming /\ resp.kind # "failed" =>
        LET f == FoldDecoder(projector, wire, 1, <<>>, <<>>) IN
        /\ calls = f.called
        /\ ret = f.ret
        /\ result.kind = "err" <=> f.failed
        /\ f.failed => f.at = Len(wire) /\ pc = "done"
        /\ StreamOk => ended /\ result.list = f.ret

\* C30's case: completion_messages_stream read a message, a frame with
\* another name and an Error event its projector fails on; it failed at the
\* third frame, where the fold fails, after the same two invocations.
C30_Witness ==
    /\ StreamErr
    /\ op = "completion_messages_stream"
    /\ projector = "guarded"
    /\ wire = << Frame("message", TxtMsgHi), Frame("ping", TxtHtml),
                 Frame("message", TxtEvError) >>
    /\ FoldDecoder(projector, wire, 1, <<>>, <<>>).at = 3
    /\ Len(calls) = 2
    /\ ret = << "Hi" >>
    /\ result.err.message = "boom"

====
